---- MODULE Spec2Model ----
(***************************************************************************)
(* Song-of-the-day bot: the selection engine, the daily trigger and the    *)
(* admin commands of src/discord_bot/song_of_day_bot.py ("bot") and of     *)
(* src/discord_bot/song_of_day_test.py ("test").  Both scripts keep their  *)
(* state in the same files; `program` says which of the two is running.    *)
(*                                                                         *)
(* A step of the model is what one handler does between two points where   *)
(* it yields to the event loop (an `await` that suspends): everything in   *)
(* between is synchronous Python and runs without interleaving.            *)
(***************************************************************************)
EXTENDS Integers, Sequences, FiniteSets, TLC

\* ------------------------------------------------------------- bounds
MaxTrack == 2     \* track ids are 1..MaxTrack
MaxDay == 1       \* the clock runs over days 0..MaxDay
MaxGuild == 2     \* guild ids are 1..MaxGuild
MaxChannel == 1   \* each guild offers channels 1..MaxChannel
MaxPicks == 3     \* length of the recorded run of random-path selections

\* ------------------------------------------------------ value domains
None == 0                       \* Python's None (no track, no override, no date)
NoRun == -1                     \* last_run.txt absent: load_last_run() is None
NoSelection == -1               \* `last.song`: the step ran no selection
BadDate == -1                   \* a date_str that date.fromisoformat rejects

TrackIds == 1..MaxTrack
Days == 0..MaxDay
Dates == 0..MaxDay              \* ISO dates an override can be keyed by
Guilds == 1..MaxGuild
\* channel c of guild g: channel ids are unique across guilds
ChannelId(g, c) == g * 10 + c
Channels == {ChannelId(g, c) : g \in Guilds, c \in 1..MaxChannel}
Programs == {"bot", "test"}

\* The minute POST_HOUR:POST_MINUTE, and the rest of the day around it:
\*   0  before the minute          1  seconds 0..9 of the minute
\*   2  seconds 10..59 of it       3  after the minute
Slots == 0..3

VARIABLES
    program,        \* which script runs
    day, slot,      \* the wall clock: datetime.now()
    catalog,        \* ids of the tracks get_all_tracks() returns now
    used,           \* used_songs.json
    scheduled,      \* scheduled_songs.json: date -> track id, None when absent
    channel_config, \* channel_config.json: <<guild, channel>> in insertion order
    last_run,       \* last_run.txt
    sched,          \* the scheduler task: [pc, today, todo]
    force,          \* a running testsong / test_sotd command: [pc, today, todo]
    last,           \* history: what the step just taken did, see Quiet
    fires,          \* history: daily firings that ran their selection stage today
    missed,         \* history: destinations the dispatch just ended never tried
    picks,          \* history: ids of the random-path selections so far
    pure,           \* history: only random-path selections, catalog never changed
    docs,           \* which of the state files hold text that does not parse
    loaded,         \* history: the load_*() just called and how it ended
    polled          \* history: what the poll ticks of this minute have found

\* the state of the running bot
run == <<program, day, slot, catalog, used, scheduled, channel_config, last_run,
         sched, force, last, fires, missed, picks, pure>>

\* the state the bot's own steps leave alone
aux == <<docs, loaded, polled>>

vars == <<run, aux>>

\* ------------------------------------------------------------ helpers
Min(S) == CHOOSE x \in S : \A y \in S : x <= y

Max(S) == CHOOSE x \in S : \A y \in S : x >= y

Injective(s) == \A i, j \in 1..Len(s) : i # j => s[i] # s[j]

NoOverrides == [d \in Dates |-> None]

\* `last` after a step that did not call song_of_the_day().  Otherwise
\*   by        "daily" or "force": who called song_of_the_day()
\*   path      how far it got: "nochannel", "raise" (the fetch failed),
\*             "empty" (no tracks), "override", "random"
\*   song      what the selection returned, NoSelection when none ran
\*   used, scheduled   the two files as the selection found them
\*   last_run  the last-run file as the step found it
Quiet == [by |-> "none", path |-> "none", song |-> NoSelection,
          used |-> {}, scheduled |-> NoOverrides, last_run |-> NoRun]

\* `last` after a command that answered with a refusal: "Permission
\* denied.", "Invalid date format (YYYY-MM-DD).", "Invalid Spotify track URL."
Refused == [Quiet EXCEPT !.by = "refused"]

Answer(accepted) == IF accepted THEN Quiet ELSE Refused

\* ----------------------------------------------------- the daily window
\* scheduler()'s test of now.hour / now.minute (/ now.second)
InWindowBot(sl) == sl \in {1, 2}

InWindowTest(sl) == sl = 1

InWindow(prog, sl) == IF prog = "bot" THEN InWindowBot(sl) ELSE InWindowTest(sl)

\* The clock moves from one slot to the next one the script's test can tell
\* from it: the test script reads now.second < 10 and nothing else of the
\* minute, so that its slots 2 and 3 are one.
NextSlot(prog, sl) == IF prog = "test" /\ sl = 1 THEN 3 ELSE sl + 1

\* ---------------------------------------------------- selection engine
\* valid_dates: the override dates that are due
DueDates(sch, today) == {d \in Dates : sch[d] # None /\ d <= today}

\* (mutant) the latest due date is taken
ChosenLatest(sch, today) == Max(DueDates(sch, today))

\* chosen_date = valid_dates[0] of the sorted list
ChosenDate(sch, today) == Min(DueDates(sch, today))

\* lookup.get(track_id)
Lookup(cat, id) == IF id \in cat THEN id ELSE None

\* unused = [t for t in tracks if t["id"] not in used]
Unused(cat, usd) == cat \ usd

\* (mutant) the reset list is used whether or not a track is left unused
EligibleAll(cat, usd) == cat

\* if not unused: unused = tracks
Eligible(cat, usd) == IF Unused(cat, usd) = {} THEN cat ELSE Unused(cat, usd)

\* (mutant) the used-set is not cleared on a wrap-around
UsedKept(cat, usd) == usd

\* if not unused: used.clear()
UsedAfterReset(cat, usd) == IF Unused(cat, usd) = {} THEN {} ELSE usd

\* if not tracks: return
NoTracks(usd, sch) ==
    {[song |-> None, used |-> usd, scheduled |-> sch, path |-> "empty"]}

\* (mutant) the chosen track is not written to the used-set before the
\* selection returns it
RandomPathNoSave(cat, usd, sch) ==
    {[song |-> s, used |-> usd, scheduled |-> sch, path |-> "random"]
        : s \in Eligible(cat, usd)}

\* random.choice(unused); used.add(song["id"]); save_used_songs(used)
RandomPath(cat, usd, sch) ==
    {[song |-> s, used |-> UsedAfterReset(cat, usd) \cup {s}, scheduled |-> sch,
      path |-> "random"] : s \in Eligible(cat, usd)}

\* (mutant) the override that was resolved stays in the map
PopNothing(sch, chosen_date) == sch

\* scheduled.pop(chosen_date); save_scheduled_songs(scheduled)
PopOverride(sch, chosen_date) == [sch EXCEPT ![chosen_date] = None]

\* (mutant) a due override whose track is gone falls back to the random path
OverrideOrRandom(cat, usd, sch, today) ==
    LET chosen_date == ChosenDate(sch, today)
        song == Lookup(cat, sch[chosen_date])
    IN  IF song = None THEN RandomPath(cat, usd, PopOverride(sch, chosen_date))
        ELSE {[song |-> song, used |-> usd \cup {song},
               scheduled |-> PopOverride(sch, chosen_date), path |-> "override"]}

\* the override branch of pick_song(), and its `if song:` that follows
OverridePath(cat, usd, sch, today) ==
    LET chosen_date == ChosenDate(sch, today)
        song == Lookup(cat, sch[chosen_date])
    IN  {[song |-> song,
          used |-> IF song # None THEN usd \cup {song} ELSE usd,
          scheduled |-> PopOverride(sch, chosen_date),
          path |-> "override"]}

\* (mutant) the random path is taken though an override is due
PickSongNoOverride(cat, usd, sch, today) ==
    IF cat = {} THEN NoTracks(usd, sch) ELSE RandomPath(cat, usd, sch)

\* (mutant) the overrides are looked at before the catalog is found empty
PickSongNoEmptyCheck(cat, usd, sch, today) ==
    IF DueDates(sch, today) # {} THEN OverridePath(cat, usd, sch, today)
    ELSE IF cat = {} THEN NoTracks(usd, sch)
    ELSE RandomPath(cat, usd, sch)

\* pick_song() of the test script: what it can return, with the files it
\* leaves
PickSong(cat, usd, sch, today) ==
    IF cat = {} THEN NoTracks(usd, sch)
    ELSE IF DueDates(sch, today) # {} THEN OverridePath(cat, usd, sch, today)
    ELSE RandomPath(cat, usd, sch)

\* the selection inlined in the bot script's song_of_the_day(): no overrides
SelectBot(cat, usd, sch) ==
    IF cat = {} THEN NoTracks(usd, sch) ELSE RandomPath(cat, usd, sch)

Select(prog, cat, usd, sch, today) ==
    IF prog = "bot" THEN SelectBot(cat, usd, sch) ELSE PickSong(cat, usd, sch, today)

\* --------------------------------------------------------- dispatcher
\* channel_config.values(), in the dict's order
ChannelsOf(cfg) == [i \in 1..Len(cfg) |-> cfg[i][2]]

\* The loop over the destinations from `chs` on, up to the next await:
\* client.get_channel() finds nothing for the first k-1 of them, which are
\* skipped, and the k-th is sent to.  The result is what is left of the list
\* from the destination being sent to; <<>> when the loop ran off its end.
NextSend(chs) == {SubSeq(chs, k, Len(chs)) : k \in 1..(Len(chs) + 1)}

\* (mutant) the selection runs before the registry is found empty
SongOfTheDayNoRegistryCheck(fetchOk) ==
    IF ~fetchOk THEN
        {[res |-> "raise", song |-> NoSelection, used |-> used,
          scheduled |-> scheduled, path |-> "raise", todo |-> <<>>]}
    ELSE
        {[res |-> IF r.song = None \/ t = <<>> THEN "return" ELSE "send",
          song |-> r.song, used |-> r.used, scheduled |-> r.scheduled,
          path |-> r.path, todo |-> IF r.song = None THEN <<>> ELSE t]
            : r \in Select(program, catalog, used, scheduled, day),
              t \in NextSend(ChannelsOf(channel_config))}

\* song_of_the_day() from its call to its first await (or its return).
\*   res = "return": it returned; "raise": get_all_tracks raised;
\*   "send": it waits in channel.send for the head of todo
SongOfTheDayStart(fetchOk) ==
    IF channel_config = <<>> THEN
        {[res |-> "return", song |-> NoSelection, used |-> used,
          scheduled |-> scheduled, path |-> "nochannel", todo |-> <<>>]}
    ELSE IF ~fetchOk THEN
        {[res |-> "raise", song |-> NoSelection, used |-> used,
          scheduled |-> scheduled, path |-> "raise", todo |-> <<>>]}
    ELSE
        LET sel == Select(program, catalog, used, scheduled, day)
        IN  {[res |-> "return", song |-> None, used |-> r.used,
              scheduled |-> r.scheduled, path |-> r.path, todo |-> <<>>]
                : r \in {x \in sel : x.song = None}}
            \cup
            {[res |-> IF t = <<>> THEN "return" ELSE "send", song |-> r.song,
              used |-> r.used, scheduled |-> r.scheduled, path |-> r.path,
              todo |-> t]
                : r \in {x \in sel : x.song # None},
                  t \in NextSend(ChannelsOf(channel_config))}

\* ----------------------------------------------------------- history
Ran(by, o) ==
    LET selected == o.path \in {"empty", "override", "random"}
    IN  last' = [by |-> by, path |-> o.path, song |-> o.song,
                 used |-> IF selected THEN used ELSE {},
                 scheduled |-> IF selected THEN scheduled ELSE NoOverrides,
                 last_run |-> last_run]

\* the run of random-path selections recorded so far
Record(o) ==
    IF o.path = "override" \/ (o.path = "random" /\ Len(picks) = MaxPicks)
    THEN /\ pure' = FALSE
         /\ picks' = <<>>
    ELSE IF o.path = "random" /\ pure
    THEN /\ pure' = TRUE
         /\ picks' = Append(picks, o.song)
    ELSE UNCHANGED <<pure, picks>>

\* a daily firing that got as far as its selection stage
Fired(res) == IF res = "raise" THEN fires ELSE IF fires < 2 THEN fires + 1 ELSE 2

\* ---------------------------------------------------- the state files
\* used_songs.json, channel_config.json, scheduled_songs.json, last_run.txt
Tables == {"used", "channel_config", "scheduled", "last_run"}

\* every file is absent or holds text that parses: what it holds is the
\* value of `used`, `channel_config`, `scheduled`, `last_run` (an absent
\* file being the empty value)
Readable == [t \in Tables |-> "ok"]

NoLoad == [table |-> "none", found |-> "ok", result |-> "none"]

\* --------------------------------------------------------------- Init
Idle == [pc |-> "idle", today |-> 0, todo |-> <<>>]

\* a fresh deployment: no state file exists yet
Init ==
    /\ program \in Programs
    /\ day = 0 /\ slot = 0
    /\ catalog \in SUBSET TrackIds
    /\ used = {}
    /\ scheduled = NoOverrides
    /\ channel_config = <<>>
    /\ last_run = NoRun
    /\ sched = Idle
    /\ force = Idle
    /\ last = Quiet
    /\ fires = 0
    /\ missed = 0
    /\ picks = <<>>
    /\ pure = TRUE
    /\ docs = Readable
    /\ loaded = NoLoad
    /\ polled = "none"

\* ------------------------------------------------------- daily trigger
\* the task after an exception left scheduler(): discord.ext.tasks retries
\* the loop for connection errors and ends it for every other exception
AfterRaise == {Idle, [Idle EXCEPT !.pc = "dead"]}

\* scheduler() after save_last_run(today): the bot script's asyncio.sleep(60)
AfterFiring(today) ==
    IF program = "bot" THEN [pc |-> "sleep", today |-> today, todo |-> <<>>]
    ELSE Idle

\* (mutant) the day is recorded only when something was posted
SaveIfPosted(posted, old, today) == IF posted THEN today ELSE old

\* scheduler() drops what song_of_the_day() returned (`posted`: True after
\* the dispatch loop, False with no destination or no track) and always
\* calls save_last_run(today)
SaveLastRun(posted, old, today) == today

\* one poll tick of scheduler(), up to its first await or its end
Scheduler ==
    /\ sched.pc = "idle"
    /\ UNCHANGED <<program, day, slot, catalog, channel_config, force>>
    /\ IF InWindow(program, slot) /\ last_run # day
       THEN \E fetchOk \in BOOLEAN : \E o \in SongOfTheDayStart(fetchOk) :
              /\ used' = o.used
              /\ scheduled' = o.scheduled
              /\ Ran("daily", o)
              /\ Record(o)
              /\ fires' = Fired(o.res)
              /\ missed' = 0
              /\ CASE o.res = "return" ->
                        /\ last_run' = SaveLastRun(o.song \notin {NoSelection, None},
                                                   last_run, day)
                        /\ sched' = AfterFiring(day)
                   [] o.res = "raise" ->
                        /\ last_run' = last_run
                        /\ sched' \in AfterRaise
                   [] o.res = "send" ->
                        /\ last_run' = last_run
                        /\ sched' = [pc |-> "send", today |-> day, todo |-> o.todo]
       ELSE /\ last' = Quiet
            /\ missed' = 0
            /\ UNCHANGED <<used, scheduled, last_run, sched, fires, picks, pure>>

\* the daily firing's channel.send() ends: the loop goes on to the next
\* destination, or the exception leaves song_of_the_day() and scheduler()
SchedulerSent ==
    /\ sched.pc = "send"
    /\ UNCHANGED <<program, day, slot, catalog, used, scheduled, channel_config,
                   force, fires, picks, pure>>
    /\ \E sendOk \in BOOLEAN :
         IF sendOk
         THEN \E t \in NextSend(Tail(sched.todo)) :
                /\ last' = Quiet
                /\ missed' = 0
                /\ IF t = <<>>
                   THEN /\ last_run' = SaveLastRun(TRUE, last_run, sched.today)
                        /\ sched' = AfterFiring(sched.today)
                   ELSE /\ last_run' = last_run
                        /\ sched' = [sched EXCEPT !.todo = t]
         ELSE /\ last' = Quiet
              /\ missed' = Len(Tail(sched.todo))
              /\ last_run' = last_run
              /\ sched' \in AfterRaise

\* asyncio.sleep(60) of the bot script's scheduler() is over: the minute of
\* the firing has passed
SchedulerWake ==
    /\ sched.pc = "sleep"
    /\ day > sched.today \/ slot = 3
    /\ sched' = Idle
    /\ last' = Quiet
    /\ missed' = 0
    /\ UNCHANGED <<program, day, slot, catalog, used, scheduled, channel_config,
                   last_run, force, fires, picks, pure>>

\* ---------------------------------------------------------- force-fire
\* (mutant) the command records the day as the scheduler does
ForceMarksDay(old, today) == today

\* testsong() / test_sotd() call song_of_the_day() and nothing else: the
\* last-run file after the command is the one before it
ForceLastRun(old, today) == old

\* testsong (bot) / test_sotd (test), up to the first await of its dispatch
ForceFire ==
    /\ force.pc = "idle"
    /\ UNCHANGED <<program, day, slot, catalog, channel_config, sched, fires>>
    /\ \E allowed \in BOOLEAN :
         IF allowed
         THEN \E fetchOk \in BOOLEAN : \E o \in SongOfTheDayStart(fetchOk) :
                /\ used' = o.used
                /\ scheduled' = o.scheduled
                /\ Ran("force", o)
                /\ Record(o)
                /\ missed' = 0
                /\ last_run' = ForceLastRun(last_run, day)
                /\ force' = IF o.res = "send"
                            THEN [pc |-> "send", today |-> 0, todo |-> o.todo]
                            ELSE Idle
         ELSE /\ last' = Refused
              /\ missed' = 0
              /\ UNCHANGED <<used, scheduled, last_run, force, picks, pure>>

\* (mutant) when its send ends the command saves a used-set it holds from
\* before the send
ForceSentStale ==
    /\ force.pc = "send"
    /\ force' = Idle
    /\ used' = {}
    /\ last' = Quiet
    /\ missed' = 0
    /\ UNCHANGED <<program, day, slot, catalog, scheduled, channel_config,
                   last_run, sched, fires, picks, pure>>

\* the forced firing's channel.send() ends
ForceSent ==
    /\ force.pc = "send"
    /\ last_run' = ForceLastRun(last_run, day)
    /\ UNCHANGED <<program, day, slot, catalog, used, scheduled, channel_config,
                   sched, fires, picks, pure>>
    /\ \E sendOk \in BOOLEAN :
         IF sendOk
         THEN \E t \in NextSend(Tail(force.todo)) :
                /\ last' = Quiet
                /\ missed' = 0
                /\ force' = IF t = <<>> THEN Idle ELSE [force EXCEPT !.todo = t]
         ELSE /\ last' = Quiet
              /\ missed' = Len(Tail(force.todo))
              /\ force' = Idle

\* ------------------------------------------------------ admin commands
\* config[str(interaction.guild.id)] = channel.id on a dict in file order
SetKey(cfg, g, ch) ==
    IF \E i \in 1..Len(cfg) : cfg[i][1] = g
    THEN [i \in 1..Len(cfg) |-> IF cfg[i][1] = g THEN <<g, ch>> ELSE cfg[i]]
    ELSE Append(cfg, <<g, ch>>)

\* (mutant) the write is made before the command looks at who asks and
\* at what is asked
Unguarded(accepted, new, old) == new

\* `if not is_allowed(interaction): ... return`, and the returns on a bad
\* date and a bad URL, come before the command's load-modify-save
Guarded(accepted, new, old) == IF accepted THEN new ELSE old

\* what every admin command leaves alone
Admin ==
    /\ missed' = 0
    /\ UNCHANGED <<program, day, slot, catalog, sched, force, fires,
                   picks, pure, used, last_run>>

SetChannel ==
    /\ Admin
    /\ UNCHANGED scheduled
    /\ \E allowed \in BOOLEAN, g \in Guilds, c \in 1..MaxChannel :
         /\ channel_config' = Guarded(allowed,
                                      SetKey(channel_config, g, ChannelId(g, c)),
                                      channel_config)
         /\ last' = Answer(allowed)

\* a Spotify URL, as far as schedule_song reads it: whether it holds
\* "/track/", and the id between that and the "?"
SpotifyUrls == [hasTrack : BOOLEAN, id : TrackIds]

ScheduleSong ==
    /\ program = "test"
    /\ Admin
    /\ UNCHANGED channel_config
    /\ \E allowed \in BOOLEAN, date_str \in Dates \cup {BadDate}, url \in SpotifyUrls :
         LET accepted == allowed /\ date_str # BadDate /\ url.hasTrack
             target == IF date_str = BadDate THEN Min(Dates) ELSE date_str
         IN  /\ scheduled' = Guarded(accepted,
                                     [scheduled EXCEPT ![target] = url.id],
                                     scheduled)
             /\ last' = Answer(accepted)

UnscheduleSong ==
    /\ program = "test"
    /\ Admin
    /\ UNCHANGED channel_config
    /\ \E allowed \in BOOLEAN, date_str \in Dates :
         /\ scheduled' = Guarded(allowed /\ scheduled[date_str] # None,
                                 [scheduled EXCEPT ![date_str] = None],
                                 scheduled)
         /\ last' = Answer(allowed)

ClearSchedule ==
    /\ program = "test"
    /\ Admin
    /\ UNCHANGED channel_config
    /\ \E allowed \in BOOLEAN :
         /\ scheduled' = Guarded(allowed, NoOverrides, scheduled)
         /\ last' = Answer(allowed)

\* -------------------------------------------------------- environment
\* time passes
ClockAdvance ==
    /\ IF slot < 3
       THEN /\ slot' = NextSlot(program, slot)
            /\ UNCHANGED <<day, fires>>
       ELSE /\ day < MaxDay
            /\ day' = day + 1
            /\ slot' = 0
            /\ fires' = 0
    /\ last' = Quiet
    /\ missed' = 0
    /\ UNCHANGED <<program, catalog, used, scheduled, channel_config, last_run,
                   sched, force, picks, pure>>

\* the playlist is edited
CatalogChange ==
    /\ \E c \in SUBSET TrackIds : c # catalog /\ catalog' = c
    /\ pure' = FALSE
    /\ picks' = <<>>
    /\ last' = Quiet
    /\ missed' = 0
    /\ UNCHANGED <<program, day, slot, used, scheduled, channel_config, last_run,
                   sched, force, fires>>

\* the process dies wherever it is and is started again: on_ready() starts
\* the scheduler; the files are what they were
Restart ==
    /\ sched' = Idle
    /\ force' = Idle
    /\ last' = Quiet
    /\ missed' = 0
    /\ UNCHANGED <<program, day, slot, catalog, used, scheduled, channel_config,
                   last_run, fires, picks, pure>>

\* The bot over state files that parse, the clock free of the poll ticks
Next ==
    \/ Scheduler /\ UNCHANGED aux
    \/ SchedulerSent /\ UNCHANGED aux
    \/ SchedulerWake /\ UNCHANGED aux
    \/ ForceFire /\ UNCHANGED aux
    \/ ForceSent /\ UNCHANGED aux
    \/ SetChannel /\ UNCHANGED aux
    \/ ScheduleSong /\ UNCHANGED aux
    \/ UnscheduleSong /\ UNCHANGED aux
    \/ ClearSchedule /\ UNCHANGED aux
    \/ ClockAdvance /\ UNCHANGED aux
    \/ CatalogChange /\ UNCHANGED aux
    \/ Restart /\ UNCHANGED aux

Spec == Init /\ [][Next]_vars

\* -------------------------------------------- the 10-second poll loop
\* @tasks.loop(seconds=10): a tick of scheduler() is due in every 10 seconds
\* while the task is between two runs of its body.  `polled` is what the
\* ticks that ran within the minute POST_HOUR:POST_MINUTE of today found:
\*   "none"    no tick has run in the minute yet
\*   "missed"  ticks ran, and each found its test of the time false
\*   "seen"    a tick found hour, minute (and second) to match
Polling == sched.pc = "idle"

PollTick ==
    /\ Scheduler
    /\ polled' = IF slot \notin {1, 2} THEN polled
                 ELSE IF InWindow(program, slot) THEN "seen"
                 ELSE IF polled = "none" THEN "missed"
                 ELSE polled
    /\ UNCHANGED <<docs, loaded>>

\* The tick due in seconds 0..9 runs late when the event loop is held by a
\* handler that does not yield: pick_song() of a force-fire, whose
\* get_all_tracks() fetches the playlist with blocking HTTP calls, here the
\* step just taken.  The 50 seconds that follow hold five ticks: one of
\* them runs before the minute is over.
TickLate == last.by = "force" /\ last.path \notin {"nochannel", "none"}

PollClock ==
    /\ IF slot < 3
       THEN /\ slot = 1 => polled # "none" \/ TickLate \/ ~Polling
            /\ slot = 2 => polled # "none" \/ ~Polling
            /\ slot' = slot + 1
            /\ UNCHANGED <<day, fires, polled>>
       ELSE /\ day < MaxDay
            /\ day' = day + 1
            /\ slot' = 0
            /\ fires' = 0
            /\ polled' = "none"
    /\ last' = Quiet
    /\ missed' = 0
    /\ UNCHANGED <<program, catalog, used, scheduled, channel_config, last_run,
                   sched, force, picks, pure, docs, loaded>>

\* The daily trigger with its ticks tied to the clock, the force-fire
\* command and the registry
PollNext ==
    \/ PollTick
    \/ PollClock
    \/ SchedulerSent /\ UNCHANGED aux
    \/ SchedulerWake /\ UNCHANGED aux
    \/ ForceFire /\ UNCHANGED aux
    \/ ForceSent /\ UNCHANGED aux
    \/ SetChannel /\ UNCHANGED aux
    \/ Restart /\ UNCHANGED aux

PollSpec == Init /\ [][PollNext]_vars

\* --------------------------------------------- loading the state files
\* load_json(path, default) of the test script, for a file found in
\* condition `doc`: json.load's JSONDecodeError is caught and the default
\* returned; the file is left as it is
LoadJson(doc) ==
    [result |-> IF doc = "corrupt" THEN "default" ELSE "value", doc |-> doc]

\* load_used_songs() of the bot script: a file that does not parse is
\* written anew with [] and set() returned
LoadUsedBot(doc) ==
    [result |-> IF doc = "corrupt" THEN "default" ELSE "value", doc |-> "ok"]

\* load_channel_config() of the bot script and load_last_run() of both:
\* json.load / date.fromisoformat raise on text that does not parse, and
\* nothing catches it
LoadUncaught(doc) ==
    [result |-> IF doc = "corrupt" THEN "raise" ELSE "value", doc |-> doc]

\* what a load leaves alone
Loading(t, r) ==
    /\ loaded' = [table |-> t, found |-> docs[t], result |-> r.result]
    /\ docs' = [docs EXCEPT ![t] = r.doc]
    /\ UNCHANGED <<program, day, slot, catalog, sched, force, last, fires,
                   missed, picks, pure, polled>>

LoadUsedSongs ==
    /\ Loading("used", IF program = "bot" THEN LoadUsedBot(docs["used"])
                                          ELSE LoadJson(docs["used"]))
    /\ UNCHANGED <<used, scheduled, channel_config, last_run>>

LoadChannelConfig ==
    /\ Loading("channel_config",
               IF program = "bot" THEN LoadUncaught(docs["channel_config"])
                                  ELSE LoadJson(docs["channel_config"]))
    /\ UNCHANGED <<used, scheduled, channel_config, last_run>>

LoadScheduledSongs ==
    /\ program = "test"
    /\ Loading("scheduled", LoadJson(docs["scheduled"]))
    /\ UNCHANGED <<used, scheduled, channel_config, last_run>>

LoadLastRun ==
    /\ Loading("last_run", LoadUncaught(docs["last_run"]))
    /\ UNCHANGED <<used, scheduled, channel_config, last_run>>

\* The state files as a run of the bot, an edit by hand or a write that was
\* cut short can have left them: a file that does not parse holds no value
StoreInit ==
    /\ program \in Programs
    /\ day = 0 /\ slot = 0
    /\ catalog = TrackIds
    /\ docs \in [Tables -> {"ok", "corrupt"}]
    /\ used \in SUBSET TrackIds
    /\ docs["used"] = "corrupt" => used = {}
    /\ scheduled \in {NoOverrides, [NoOverrides EXCEPT ![0] = 1]}
    /\ docs["scheduled"] = "corrupt" \/ program = "bot" => scheduled = NoOverrides
    /\ channel_config \in {<<>>, <<<<1, ChannelId(1, 1)>>>>}
    /\ docs["channel_config"] = "corrupt" => channel_config = <<>>
    /\ last_run \in {NoRun, 0}
    /\ docs["last_run"] = "corrupt" => last_run = NoRun
    /\ sched = Idle
    /\ force = Idle
    /\ last = Quiet
    /\ fires = 0
    /\ missed = 0
    /\ picks = <<>>
    /\ pure = TRUE
    /\ loaded = NoLoad
    /\ polled = "none"

StoreNext ==
    \/ LoadUsedSongs
    \/ LoadChannelConfig
    \/ LoadScheduledSongs
    \/ LoadLastRun

\* the loaders of the four tables, over files in any condition
StoreSpec == StoreInit /\ [][StoreNext]_vars

TypeOK ==
    /\ program \in Programs
    /\ day \in Days /\ slot \in Slots
    /\ catalog \subseteq TrackIds /\ used \subseteq TrackIds
    /\ scheduled \in [Dates -> TrackIds \cup {None}]
    /\ last_run \in Days \cup {NoRun}
    /\ sched.pc \in {"idle", "send", "sleep", "dead"}
    /\ force.pc \in {"idle", "send"}
    /\ fires \in 0..2
    /\ Len(picks) <= MaxPicks
    /\ docs \in [Tables -> {"ok", "corrupt"}]
    /\ loaded.result \in {"none", "value", "default", "raise"}
    /\ polled \in {"none", "missed", "seen"}

\* =====================================================================
\* Properties
\* =====================================================================

\* the step just taken ran the selection engine
Selected == last.path \in {"empty", "override", "random"}

\* the step just taken was a poll tick of scheduler() that called
\* song_of_the_day()
DailyFiring == last.by = "daily"

\* the override dates that were due when the selection ran (the clock does
\* not move within a step)
Due == {d \in Dates : d <= day /\ last.scheduled[d] # None}

\* a step of the daily firing in which song_of_the_day() is left
DailyFiringEnds ==
    \/ last'.by = "daily" /\ sched'.pc # "send"
    \/ SchedulerSent /\ sched'.pc # "send"

\* the `today` of the daily firing that takes the step
FiringDay == IF sched.pc = "send" THEN sched.today ELSE day

\* C1 -- Once-per-day: a poll tick that finds LastFiredDate = today fires
\* nothing, even in the window; a firing that ends leaves LastFiredDate =
\* today; and the daily trigger fires at most once in a calendar day over
\* any sequence of ticks and restarts.
C1_OncePerDay ==
    /\ [](DailyFiring => last.last_run # day)
    /\ [][DailyFiringEnds /\ last'.path # "raise" => last_run' = FiringDay]_vars
    /\ [](fires <= 1)

\* the random path took a track that was already in the used-set only when
\* every track of the catalog was in it (the wrap-around reset)
RepeatOnlyOnWrap ==
    last.path = "random" /\ last.song \in last.used => catalog \subseteq last.used

\* C2 (as stated) -- No-repeat: over a fixed catalog, the ids of any N <=
\* catalog size random-path selections in a row are pairwise distinct; and the
\* random path returns a used track only in a selection that wrapped around.
C2_NoRepeatInAnyRun ==
    /\ pure => \A i, j \in 1..Len(picks) :
                 i < j /\ j - i + 1 <= Cardinality(catalog) => picks[i] # picks[j]
    /\ RepeatOnlyOnWrap

\* C2 (amended) -- No-repeat: over a fixed catalog and starting from an empty
\* used-set, the ids of the first N <= catalog size random-path selections
\* are pairwise distinct; and the random path returns a used track only in a
\* selection that wrapped around.
C2_NoRepeat ==
    /\ pure /\ Len(picks) <= Cardinality(catalog) => Injective(picks)
    /\ RepeatOnlyOnWrap

\* as many random-path selections as the catalog has tracks, two at least
C2_Witness ==
    pure /\ Len(picks) = Cardinality(catalog) /\ Len(picks) >= 2

\* C3 -- Wrap-around: a selection over a non-empty catalog whose tracks are
\* all in the used-set, with no override due, returns a track of the catalog
\* and leaves a used-set holding that track's id and nothing else.
C3_WrapAround ==
    Selected /\ catalog # {} /\ catalog \subseteq last.used /\ Due = {}
        => last.song \in catalog /\ used = {last.song}

\* a wrap-around over a catalog of two tracks or more
C3_Witness ==
    /\ last.path = "random" /\ last.song \in last.used
    /\ used = {last.song} /\ Cardinality(catalog) >= 2

\* today's override was resolved and consumed
TodaysOverrideTaken ==
    last.song = last.scheduled[day] /\ scheduled[day] = None

\* C4 (as stated) -- Override priority: with an entry for today in the
\* override map whose track T is in the catalog, the selection returns T
\* whatever the used-set holds, and the entry is gone afterwards.
C4_TodaysOverrideWins ==
    Selected /\ last.scheduled[day] \in catalog => TodaysOverrideTaken

\* C4 (amended) -- Override priority: the same, when no override of an
\* earlier date is due.
C4_OverridePriority ==
    Selected /\ last.scheduled[day] \in catalog /\ Due = {day}
        => TodaysOverrideTaken

\* today's override returned a track that was in the used-set already
C4_Witness ==
    /\ last.path = "override" /\ last.song # None /\ last.song \in last.used
    /\ last.scheduled[day] = last.song /\ scheduled[day] = None

\* the selection resolved the earliest due override and removed that entry
\* and no other
EarliestTaken ==
    LET D1 == Min(Due)
    IN  /\ last.song = IF last.scheduled[D1] \in catalog
                       THEN last.scheduled[D1] ELSE None
        /\ scheduled = [last.scheduled EXCEPT ![D1] = None]

\* C5 (as stated) -- Earliest-due: with two overrides due, D1 < D2 <= today,
\* a selection resolves the track of D1, removes the D1 entry and leaves
\* every other entry as it was.
C5_EarliestDueAnyCatalog ==
    Selected /\ Cardinality(Due) = 2 => EarliestTaken

\* C5 (amended) -- Earliest-due: the same, over a non-empty catalog.
C5_EarliestDue ==
    Selected /\ Cardinality(Due) = 2 /\ catalog # {} => EarliestTaken

\* two overrides of different tracks were due, and the earlier was taken
C5_Witness ==
    /\ last.path = "override" /\ last.song # None
    /\ Cardinality(Due) = 2
    /\ \A d, e \in Due : d # e => last.scheduled[d] # last.scheduled[e]

\* the dangling override was consumed, nothing returned, nothing marked used
DanglingDropped ==
    /\ last.song = None
    /\ scheduled = [last.scheduled EXCEPT ![Min(Due)] = None]
    /\ used = last.used

\* C6 (as stated) -- Dangling override: when the earliest due override maps
\* to an id that is not in the catalog, the selection removes the entry,
\* returns no track (no fall-back to the random path) and leaves the
\* used-set alone.
C6_DanglingAnyCatalog ==
    Selected /\ Due # {} /\ last.scheduled[Min(Due)] \notin catalog
        => DanglingDropped

\* C6 (amended) -- Dangling override: the same, over a non-empty catalog.
C6_Dangling ==
    Selected /\ Due # {} /\ last.scheduled[Min(Due)] \notin catalog /\ catalog # {}
        => DanglingDropped

\* an override was consumed and gave no track, with tracks left to pick
C6_Witness ==
    /\ last.path = "override" /\ last.song = None
    /\ catalog \ used # {}

\* C7 -- Empty-catalog no-op: a selection over an empty catalog returns none
\* and leaves the used-set and the override map as they were, due overrides
\* or not.
C7_EmptyCatalogNoOp ==
    Selected /\ catalog = {}
        => last.song = None /\ used = last.used /\ scheduled = last.scheduled

\* the selection found no tracks while an override was due and tracks used
C7_Witness ==
    last.path = "empty" /\ Due # {} /\ used # {}

\* a step of the force-fire command: it calls song_of_the_day(), or the
\* state of the command changes
ForceStep == last'.by = "force" \/ force' # force

\* C8 -- Force-fire leaves the daily trigger's state alone: no step of
\* testsong / test_sotd changes LastFiredDate or counts as a daily firing,
\* in or out of the window and whatever LastFiredDate is.
C8_ForceLeavesTrigger ==
    [][ForceStep => last_run' = last_run /\ fires' = fires]_vars

\* the second force-fire of a day on which the daily trigger has not fired,
\* before the window
C8_Witness ==
    /\ last.by = "force" /\ last.song \notin {NoSelection, None}
    /\ pure /\ Len(picks) = 2
    /\ day = 0 /\ slot = 0 /\ fires = 0 /\ last_run = NoRun

\* C9 -- Per-destination independence: a dispatch that ends has tried every
\* destination of the registry it read, whether or not a destination could
\* be resolved or a send failed.
C9_EveryDestinationTried == missed = 0

\* C10 -- A no-op firing still counts as fired: a daily firing that finds no
\* destination or no track (empty catalog, dangling override) records
\* LastFiredDate = today, and a tick that finds LastFiredDate = today does
\* not fire.
C10_NoOpFiringCounts ==
    /\ DailyFiring /\ (last.path = "nochannel" \/ last.song = None)
        => last_run = day
    /\ DailyFiring => last.last_run # day

\* the daily firing consumed a dangling override and recorded the day
C10_Witness ==
    /\ last.by = "daily" /\ last.path = "override" /\ last.song = None
    /\ last_run = day /\ fires = 1

\* the four tables
Tabled == <<used, scheduled, channel_config, last_run>>

\* C11 -- Corrupt-state tolerance: a load of any of the four tables never
\* raises, and from a document that is absent or does not parse it returns
\* the table's empty default, on a second load as on the first.
C11_LoadNeverRaises ==
    /\ loaded.result # "raise"
    /\ loaded.found = "corrupt" => loaded.result = "default"

\* C12 -- Corrupt-state rewrite: a load that finds its table's document
\* not to parse leaves that document holding the empty default, and the
\* documents of the other tables as they were.
C12_CorruptRewritten ==
    [][loaded'.table # "none" /\ docs[loaded'.table] = "corrupt"
         => /\ docs' = [docs EXCEPT ![loaded'.table] = "ok"]
            /\ UNCHANGED Tabled]_vars

\* C13 -- Rejected admin commands mutate nothing: a command that refuses an
\* unauthorized actor (setchannel, schedule_song, unschedule_song,
\* clear_schedule, test_sotd), and schedule_song refusing a malformed date
\* or a URL without "/track/", leaves every table as it was.
C13_RefusedMutatesNothing ==
    [][last'.by = "refused" => UNCHANGED Tabled]_vars

\* a command was refused with every table non-empty
C13_Witness ==
    /\ last.by = "refused"
    /\ used # {} /\ scheduled # NoOverrides
    /\ channel_config # <<>> /\ last_run # NoRun

\* C14 -- Catalog-fetch failure in a daily firing: no track is chosen, the
\* used-set, the override map and LastFiredDate stay as they were, and the
\* daily trigger is left polling, to try again on its next tick.
C14_FetchFailureRetried ==
    [][last'.by = "daily" /\ last'.path = "raise"
         => /\ last'.song = NoSelection
            /\ UNCHANGED <<used, scheduled, last_run>>
            /\ sched'.pc = "idle"]_vars

\* a step in which the daily firing's dispatch is left: its last send is
\* over, a send raised, or the process went down
DispatchLeft == sched.pc = "send" /\ sched'.pc # "send"

\* C15 -- Crash during dispatch: however the dispatch of a daily firing is
\* left, the day is marked fired, and no second daily firing selects a
\* track that day.
C15_CrashedDispatchCounts ==
    /\ [][DispatchLeft => last_run' = sched.today]_vars
    /\ [](fires < 2)

\* the step just taken called song_of_the_day(), which chose a track
Chose == last.by \in {"daily", "force"} /\ last.song \notin {NoSelection, None}

\* C16 -- Selection is flushed before dispatch: when song_of_the_day()
\* reaches its first send, the used-set on file holds the chosen track and
\* the override map on file has lost the override it resolved.
C16_FlushedBeforeDispatch ==
    Chose => /\ last.song \in used
             /\ last.path = "override" => scheduled[Min(Due)] = None

\* the daily firing waits in its first send, of two, for an override's track
C16_Witness ==
    /\ Chose /\ last.by = "daily" /\ last.path = "override"
    /\ sched.pc = "send" /\ Len(sched.todo) = 2

\* C17 -- The window is not skipped: on a day whose LastFiredDate is not
\* today, the ticks of a loop that polls through the minute do not all find
\* the window closed, a tick that ran late included.
C17_WindowNotSkipped == polled = "missed" => last_run = day

\* a step in which a handler goes on after an await: a send of a dispatch
\* ends, or the sleep after a firing
Resumed ==
    \/ sched.pc \in {"send", "sleep"} /\ sched' # sched
    \/ force.pc = "send" /\ force' # force

\* C18 -- No lost update under cooperative interleaving: every
\* load-modify-save of a table is done within one step, so a handler that
\* goes on after an await writes none of the used-set, the override map and
\* the registry from what it loaded before.
C18_NoStaleSave ==
    [][Resumed => UNCHANGED <<used, scheduled, channel_config>>]_vars

\* the daily firing made its selection while a force-fire waited in a send,
\* and both are in their dispatch
C18_Witness ==
    /\ last.by = "daily" /\ last.path = "random"
    /\ force.pc = "send" /\ sched.pc = "send"

\* C19 -- No destinations means no selection: a firing, daily or forced,
\* over an empty registry leaves the used-set and the override map as they
\* were, and a daily one records LastFiredDate = today.
C19_NoDestinationNoSelection ==
    [][last'.by \in {"daily", "force"} /\ channel_config = <<>>
         => /\ UNCHANGED <<used, scheduled>>
            /\ last'.by = "daily" => last_run' = day]_vars

\* a daily firing found no destination while an override was due
C19_Witness ==
    /\ last.by = "daily" /\ last.path = "nochannel"
    /\ scheduled[day] # None /\ last_run = day

\* C20 -- An override is consumed at most once: every selection that
\* resolves an override removes that entry, a due one, from the map on file
\* in the same step, so that no later firing finds it.
C20_OverrideConsumedOnce ==
    [][last'.path = "override"
         => \E d \in Dates :
              /\ d <= day /\ scheduled[d] # None
              /\ scheduled' = [scheduled EXCEPT ![d] = None]]_vars

\* a force-fire took an override while the daily firing was in its dispatch
C20_Witness ==
    last.by = "force" /\ last.path = "override" /\ sched.pc = "send"

====
